---- MODULE Spec2Model ----
(***************************************************************************)
(* GhostLedger ACB engine (src/ghostledger/acb_engine.py): the calculator  *)
(* object, its process_transactions loop, the superficial-loss detector.   *)
(*                                                                         *)
(* Number representation.  The code computes with decimal.Decimal, which   *)
(* is exact for +, -, * at the magnitudes used here, so every value is an  *)
(* integer count of a fixed unit:                                          *)
(*   amount_btc             units of 0.000000005 BTC (half a satoshi)      *)
(*   price_cad, acb_per_btc units of 0.01 CAD per BTC                      *)
(*   fee_cad, total_cost, proceeds, cost_basis, capital_gain               *)
(*                          units of 0.00000000005 CAD (amount unit x cent)*)
(*   date                   days since 2023-12-05                          *)
(* The transactions of create_test_transactions (whole prices, tenths and  *)
(* twentieths of a BTC) do not fit these units in TLC's integers; a run on *)
(* them counts amount_btc in units of 0.05 BTC and money in units of       *)
(* 0.0005 CAD (variable unit).                                             *)
(* With these units amount*price is a money value with no scaling, and     *)
(* total_cost/total_btc quantized to 0.01 is the quotient of the two       *)
(* integers rounded half-up to an integer.  The division is carried out by *)
(* Decimal with 28 significant digits before quantize; for the bounded     *)
(* values below a quotient is either a tie or at least 1/(2*total_btc)     *)
(* away from one, so the intermediate rounding never changes the result.   *)
(***************************************************************************)
EXTENDS Integers, Sequences, FiniteSets, TLC

\* ------------------------------------------------------------------ bounds
MaxTxs == 3
MaxRuns == 2

\* ------------------------------------------------------- program constants
\* Decimal('0.00000001') of acb_engine.py:236, in amount units
EPSILON == 2
\* timedelta(days=30) of acb_engine.py:284, in days
WINDOW_DAYS == 30
NEAREST_DAYS == 7
max_retries == 3
\* inclusion_rate = Decimal('0.50') of acb_engine.py:341, in tenths
INCLUSION_RATE_TENTHS == 5

Acquisitions == {"buy", "receive"}
Dispositions == {"sell", "spend", "send"}

\* --------------------------------------------------------- input universe
\* The transactions a caller's list is drawn from.  Dates: 31 is 30 days
\* after 1, 31 days after 0, 10 days after 21.  Amounts: 1 is below EPSILON,
\* 2 equals it.  A buy of 2 at price 1 with fee 1 costs 3 (per-unit cost 1.5,
\* a tie); together with a receive of 4 at price 0 the pool is 6 units for 3.
Dates == {0, 1, 21, 31}

Buys ==
    [date : Dates, tx_type : {"buy"}, amount_btc : {2},
     price_cad : {1}, fee_cad : {1}, label : {""}]
Receives ==
    [date : {1}, tx_type : {"receive"}, amount_btc : {1, 4},
     price_cad : {0}, fee_cad : {0}, label : {""}]
Sells ==
    [date : {1, 31}, tx_type : {"sell"}, amount_btc : {1, 2, 4},
     price_cad : {1}, fee_cad : {0}, label : {""}]
Spends ==
    [date : {1, 31}, tx_type : {"spend"}, amount_btc : {2},
     price_cad : {0, 1}, fee_cad : {1}, label : {""}]
Sends ==
    [date : {1, 31}, tx_type : {"send"}, amount_btc : {4},
     price_cad : {0}, fee_cad : {0}, label : {""}]
Transfers ==
    [date : {1}, tx_type : {"transfer"}, amount_btc : {2},
     price_cad : {1}, fee_cad : {1}, label : {""}]

TxSet == Buys \cup Receives \cup Sells \cup Spends \cup Sends \cup Transfers

\* create_test_transactions, acb_engine.py:396-440, in units of 0.05 BTC,
\* 0.01 CAD per BTC and 0.0005 CAD: 2024-01-15 is day 41, 2024-02-20 day 77,
\* 2024-03-10 day 96, 2024-04-05 day 122, 2024-04-20 day 137
create_test_transactions ==
    << [date |-> 41, tx_type |-> "buy", amount_btc |-> 10,
        price_cad |-> 6000000, fee_cad |-> 100000, label |-> "DCA Purchase"],
       [date |-> 77, tx_type |-> "buy", amount_btc |-> 5,
        price_cad |-> 6500000, fee_cad |-> 60000, label |-> "DCA Purchase"],
       [date |-> 96, tx_type |-> "sell", amount_btc |-> 6,
        price_cad |-> 7000000, fee_cad |-> 50000, label |-> "Taking profit"],
       [date |-> 122, tx_type |-> "buy", amount_btc |-> 2,
        price_cad |-> 5500000, fee_cad |-> 30000, label |-> "Buying dip"],
       [date |-> 137, tx_type |-> "sell", amount_btc |-> 4,
        price_cad |-> 5000000, fee_cad |-> 40000,
        label |-> "Loss sale - check superficial"] >>

FixtureSet == {create_test_transactions[i] : i \in 1..5}

Units == {"half_satoshi", "twentieth_btc"}
InputsIn(u) == IF u = "half_satoshi" THEN TxSet ELSE FixtureSet

\* ------------------------------------------------------------------ state
VARIABLES
    transactions,         \* the caller's list, the argument of the next call
    total_cost,           \* self.total_cost
    total_btc,            \* self.total_btc
    ledger,               \* self.ledger
    recent_transactions,  \* self._recent_transactions
    arg,                  \* the argument of the call in progress / last call
    sorted_txs,           \* local sorted_txs of process_transactions
    pos,                  \* position of the for loop in sorted_txs
    pc,                   \* "idle" | "loop" | "returned"
    sorted_idx,           \* history: index in arg of each element of sorted_txs
    ledger_idx,           \* history: index in arg of each ledger entry's transaction
    pre_clamp,            \* history: the pool as the last step left it before
                          \* the dust clamp (lines 232-233), <<cost, units>>
    prior,                \* history: what the calculator held when the call
                          \* started: "fresh" | "same" (result of the same
                          \* list) | "other" (result of another list)
    unit,                 \* the unit amount_btc is counted in, fixed for a run
    summary,              \* the dict get_summary returned, with its argument,
                          \* when that call was the last operation; else <<>>
    summaries,            \* history: every <<argument, dict>> get_summary
                          \* returned since the last process_transactions
    schedule_3,           \* the rows export_for_schedule_3 returned, with its
                          \* argument, once it was called; else <<>>
    prices,               \* HistoricalPriceProvider.prices: day -> price
    parsed,               \* history: the list as add_prices_to_transactions
                          \* received it
    price_warnings,       \* the warnings add_prices_to_transactions returned
    stage,                \* app.py process_transactions: "parsing" | "priced";
                          \* "none" when the calculator is used directly
    session_state,        \* st.session_state: key -> value, Unset if absent
    app_pc,               \* position of the script run of app.py
    attempt,              \* fetch_prices: the loop variable i
    provider_calls,       \* history: fetch_from_coingecko calls made by the
                          \* fetch_prices call in progress / last made
    fetch_calls,          \* history: fetch_prices calls made by
                          \* init_session_state in this script run
    fetch_result,         \* history: "none" | "running" | "success" | "failed"
    fetch_caller,         \* where fetch_prices returns to: "init" | "retry"
    runs,                 \* history: script runs started in this session
    fresh_session         \* history: the session started with no key set

price_vars == <<prices, parsed, price_warnings, stage>>

app_vars == <<session_state, app_pc, attempt, provider_calls, fetch_calls,
              fetch_result, fetch_caller, runs, fresh_session>>

engine_vars == <<transactions, total_cost, total_btc, ledger,
                 recent_transactions, arg, sorted_txs, pos, pc, sorted_idx,
                 ledger_idx, pre_clamp, prior, unit, summary, summaries,
                 schedule_3>>

vars == <<transactions, total_cost, total_btc, ledger, recent_transactions,
          arg, sorted_txs, pos, pc, sorted_idx, ledger_idx, pre_clamp,
          prior, unit, summary, summaries, schedule_3, prices, parsed,
          price_warnings, stage, session_state, app_pc, attempt,
          provider_calls, fetch_calls, fetch_result, fetch_caller, runs,
          fresh_session>>

\* ------------------------------------------------------------ arithmetic
\* Decimal('0.00000001') in the run's amount units: a whole number n of
\* 0.05 BTC is below 0.00000001 BTC exactly when n < 1
epsilon_units == IF unit = "half_satoshi" THEN EPSILON ELSE 1

Abs(x) == IF x < 0 THEN -x ELSE x

\* Decimal.quantize(Decimal('0.01'), rounding=ROUND_HALF_UP) of n/d, d > 0:
\* nearest, ties away from zero
RoundHalfUp(n, d) ==
    IF n >= 0 THEN (2 * n + d) \div (2 * d)
    ELSE -((2 * (-n) + d) \div (2 * d))

\* variant of acb_per_btc: the quotient is cut off, not rounded
acb_per_btc_truncating(tc, tb) ==
    IF tb <= 0 THEN 0 ELSE tc \div tb

acb_per_btc(tc, tb) ==
    IF tb <= 0 THEN 0 ELSE RoundHalfUp(tc, tb)

\* Optional[Decimal]: None is <<>>, a value v is <<v>>
None == <<>>
Some(v) == <<v>>

NoNote == [text |-> "", acquired_on |-> None]

\* ------------------------------------------------------------ operations
\* variant of acquisition_cost: the fee is left out of the cost
acquisition_cost_without_fee(tx) == tx.amount_btc * tx.price_cad

\* line 164
acquisition_cost(tx) == (tx.amount_btc * tx.price_cad) + tx.fee_cad

\* variant of _process_acquisition: total_cost is rebuilt from the rounded
\* per-unit cost
_process_acquisition_rounded(tc, tb, tx) ==
    LET tb2 == tb + tx.amount_btc
        tc2 == acb_per_btc(tc + acquisition_cost(tx), tb2) * tb2
    IN [total_cost |-> tc2,
        total_btc |-> tb2,
        entry |-> [date |-> tx.date, tx_type |-> tx.tx_type,
                   amount_btc |-> tx.amount_btc, price_cad |-> tx.price_cad,
                   fee_cad |-> tx.fee_cad,
                   total_cost_after |-> tc2, total_btc_after |-> tb2,
                   acb_per_btc |-> acb_per_btc(tc2, tb2),
                   proceeds |-> None, cost_basis |-> None,
                   capital_gain |-> None,
                   superficial_loss_flag |-> FALSE,
                   superficial_loss_note |-> NoNote,
                   label |-> tx.label]]

_process_acquisition(tc, tb, tx) ==
    LET tc2 == tc + acquisition_cost(tx)
        tb2 == tb + tx.amount_btc
    IN [total_cost |-> tc2,
        total_btc |-> tb2,
        entry |-> [date |-> tx.date, tx_type |-> tx.tx_type,
                   amount_btc |-> tx.amount_btc, price_cad |-> tx.price_cad,
                   fee_cad |-> tx.fee_cad,
                   total_cost_after |-> tc2, total_btc_after |-> tb2,
                   acb_per_btc |-> acb_per_btc(tc2, tb2),
                   proceeds |-> None, cost_basis |-> None,
                   capital_gain |-> None,
                   superficial_loss_flag |-> FALSE,
                   superficial_loss_note |-> NoNote,
                   label |-> tx.label]]

\* variant of in_window: the start of the window is excluded
in_window_open_start(recent_tx, tx) ==
    LET loss_date == tx.date
        window_start == loss_date - WINDOW_DAYS
    IN window_start < recent_tx.date /\ recent_tx.date < loss_date

\* variant of in_window: the day of the loss is inside the window
in_window_closed_end(recent_tx, tx) ==
    LET loss_date == tx.date
        window_start == loss_date - WINDOW_DAYS
    IN window_start <= recent_tx.date /\ recent_tx.date <= loss_date

\* lines 283-284 and 289: window_start <= recent_tx.date < loss_date
in_window(recent_tx, tx) ==
    LET loss_date == tx.date
        window_start == loss_date - WINDOW_DAYS
    IN window_start <= recent_tx.date /\ recent_tx.date < loss_date

\* the scan of self._recent_transactions, first match wins
RECURSIVE ScanRecent(_, _, _)
ScanRecent(recent, k, tx) ==
    IF k > Len(recent)
       THEN [flag |-> FALSE,
             note |-> [text |-> "check_after", acquired_on |-> None]]
       ELSE IF /\ recent[k].tx_type \in Acquisitions
               /\ in_window(recent[k], tx)
            THEN [flag |-> TRUE,
                  note |-> [text |-> "potential_superficial_loss",
                            acquired_on |-> Some(recent[k].date)]]
            ELSE ScanRecent(recent, k + 1, tx)

_check_superficial_loss(recent, tx) == ScanRecent(recent, 1, tx)

\* variant of cost_basis_of: the share of total_cost, from the unrounded ratio
cost_basis_unrounded(tc, tb, tx) ==
    IF tb <= 0 THEN 0 ELSE RoundHalfUp(tx.amount_btc * tc, tb)

\* line 215
cost_basis_of(tc, tb, tx) == tx.amount_btc * acb_per_btc(tc, tb)

\* variant of cost_removed: the per-unit cost is read after total_btc was
\* reduced
cost_removed_after_units(tc, tb, tx) ==
    tx.amount_btc * acb_per_btc(tc, tb - tx.amount_btc)

\* line 231
cost_removed(tc, tb, tx) == tx.amount_btc * acb_per_btc(tc, tb)

\* variant of DustClamp: only total_btc is cleared
DustClampUnitsOnly(pool) ==
    IF pool.total_btc < epsilon_units
    THEN [total_cost |-> pool.total_cost, total_btc |-> 0]
    ELSE pool

\* variant of DustClamp: no clamp
DustClampAbsent(pool) == pool

\* variant of DustClamp: a pool of exactly EPSILON is cleared too
DustClampInclusive(pool) ==
    IF pool.total_btc <= epsilon_units
    THEN [total_cost |-> 0, total_btc |-> 0]
    ELSE pool

\* lines 235-238
DustClamp(pool) ==
    IF pool.total_btc < epsilon_units
    THEN [total_cost |-> 0, total_btc |-> 0]
    ELSE pool

\* variant of is_loss: a gain of exactly 0 is checked too
is_loss_or_zero(capital_gain) == capital_gain <= 0

\* line 224: if capital_gain < 0
is_loss(capital_gain) == capital_gain < 0

\* variant of _process_disposition: a flagged loss is denied, the entry
\* reports a gain of 0
_process_disposition_denying(tc, tb, recent, tx) ==
    LET proceeds == (tx.amount_btc * tx.price_cad) - tx.fee_cad
        cost_basis == cost_basis_of(tc, tb, tx)
        capital_gain == proceeds - cost_basis
        sl == IF is_loss(capital_gain)
              THEN _check_superficial_loss(recent, tx)
              ELSE [flag |-> FALSE, note |-> NoNote]
        mutated == [total_cost |-> tc - cost_removed(tc, tb, tx),
                    total_btc |-> tb - tx.amount_btc]
        pool == DustClamp(mutated)
    IN [total_cost |-> pool.total_cost,
        total_btc |-> pool.total_btc,
        pre_clamp |-> <<mutated.total_cost, mutated.total_btc>>,
        entry |-> [date |-> tx.date, tx_type |-> tx.tx_type,
                   amount_btc |-> tx.amount_btc, price_cad |-> tx.price_cad,
                   fee_cad |-> tx.fee_cad,
                   total_cost_after |-> pool.total_cost,
                   total_btc_after |-> pool.total_btc,
                   acb_per_btc |-> acb_per_btc(pool.total_cost, pool.total_btc),
                   proceeds |-> Some(proceeds),
                   cost_basis |-> Some(cost_basis),
                   capital_gain |-> Some(IF sl.flag THEN 0 ELSE capital_gain),
                   superficial_loss_flag |-> sl.flag,
                   superficial_loss_note |-> sl.note,
                   label |-> tx.label]]

_process_disposition(tc, tb, recent, tx) ==
    LET proceeds == (tx.amount_btc * tx.price_cad) - tx.fee_cad
        cost_basis == cost_basis_of(tc, tb, tx)
        capital_gain == proceeds - cost_basis
        sl == IF is_loss(capital_gain)
              THEN _check_superficial_loss(recent, tx)
              ELSE [flag |-> FALSE, note |-> NoNote]
        mutated == [total_cost |-> tc - cost_removed(tc, tb, tx),
                    total_btc |-> tb - tx.amount_btc]
        pool == DustClamp(mutated)
    IN [total_cost |-> pool.total_cost,
        total_btc |-> pool.total_btc,
        pre_clamp |-> <<mutated.total_cost, mutated.total_btc>>,
        entry |-> [date |-> tx.date, tx_type |-> tx.tx_type,
                   amount_btc |-> tx.amount_btc, price_cad |-> tx.price_cad,
                   fee_cad |-> tx.fee_cad,
                   total_cost_after |-> pool.total_cost,
                   total_btc_after |-> pool.total_btc,
                   acb_per_btc |-> acb_per_btc(pool.total_cost, pool.total_btc),
                   proceeds |-> Some(proceeds),
                   cost_basis |-> Some(cost_basis),
                   capital_gain |-> Some(capital_gain),
                   superficial_loss_flag |-> sl.flag,
                   superficial_loss_note |-> sl.note,
                   label |-> tx.label]]

\* variant of InsertIdx: an index goes in front of the indices with the same
\* date (the sort is not stable)
InsertIdxBeforeEqual(s, i, T) ==
    LET before == {k \in 1..Len(s) : T[s[k]].date < T[i].date}
        n == Cardinality(before)
    IN [k \in 1..(Len(s) + 1) |->
           IF k <= n THEN s[k] ELSE IF k = n + 1 THEN i ELSE s[k - 1]]

\* sorted(transactions, key=lambda x: x.date): a stable sort.  The result is
\* the sequence of indices into T; index i is inserted behind every index
\* already placed whose date is not later.
InsertIdx(s, i, T) ==
    LET before == {k \in 1..Len(s) : T[s[k]].date <= T[i].date}
        n == Cardinality(before)
    IN [k \in 1..(Len(s) + 1) |->
           IF k <= n THEN s[k] ELSE IF k = n + 1 THEN i ELSE s[k - 1]]

RECURSIVE SortPrefix(_, _)
SortPrefix(T, n) ==
    IF n = 0 THEN <<>> ELSE InsertIdx(SortPrefix(T, n - 1), n, T)

sorted_by_date(T) == SortPrefix(T, Len(T))

\* e.date.year, for days since 2023-12-05 (day 27 is 2024-01-01)
YearOf(d) == IF d < 27 THEN 2023 ELSE 2024

\* lines 315-318: entries = self.ledger, filtered when tax_year is given
entries_of(l, tax_year) ==
    IF tax_year = None THEN l
    ELSE SelectSeq(l, LAMBDA e : YearOf(e.date) = tax_year[1])

\* variant of accumulate: a flagged loss is counted and also added to
\* total_losses
accumulate_counting_flagged(acc, entry) ==
    IF entry.capital_gain # None
    THEN IF entry.capital_gain[1] >= 0
         THEN [acc EXCEPT !.total_gains = @ + entry.capital_gain[1]]
         ELSE IF entry.superficial_loss_flag
              THEN [acc EXCEPT !.superficial_count = @ + 1,
                               !.total_losses = @ + Abs(entry.capital_gain[1])]
              ELSE [acc EXCEPT !.total_losses = @ + Abs(entry.capital_gain[1])]
    ELSE acc

\* lines 325-334: one pass of the loop body over an entry
accumulate(acc, entry) ==
    IF entry.capital_gain # None
    THEN IF entry.capital_gain[1] >= 0
         THEN [acc EXCEPT !.total_gains = @ + entry.capital_gain[1]]
         ELSE IF entry.superficial_loss_flag
              THEN [acc EXCEPT !.superficial_count = @ + 1]
              ELSE [acc EXCEPT !.total_losses = @ + Abs(entry.capital_gain[1])]
    ELSE acc

RECURSIVE AccumulateAll(_, _)
AccumulateAll(entries, n) ==
    IF n = 0
    THEN [total_gains |-> 0, total_losses |-> 0, superficial_count |-> 0]
    ELSE accumulate(AccumulateAll(entries, n - 1), entries[n])

\* variant of taxable_gain_of: without the max
taxable_gain_unclamped(net_gain) == net_gain * INCLUSION_RATE_TENTHS

\* line 342, in tenths of a money unit
taxable_gain_of(net_gain) ==
    IF net_gain * INCLUSION_RATE_TENTHS > 0
    THEN net_gain * INCLUSION_RATE_TENTHS ELSE 0

\* variant of reported_pool: the snapshot of the last entry of the period
reported_pool_of_period(l, tc, tb, tax_year) ==
    LET entries == entries_of(l, tax_year)
    IN IF entries = <<>>
       THEN [current_holdings_btc |-> 0, current_acb_total |-> 0,
             current_acb_per_btc |-> 0]
       ELSE [current_holdings_btc |-> entries[Len(entries)].total_btc_after,
             current_acb_total |-> entries[Len(entries)].total_cost_after,
             current_acb_per_btc |-> entries[Len(entries)].acb_per_btc]

\* lines 351-353: the pool the dict reports, read from the calculator
\* (l: self.ledger, tc: self.total_cost, tb: self.total_btc)
reported_pool(l, tc, tb, tax_year) ==
    [current_holdings_btc |-> tb,
     current_acb_total |-> tc,
     current_acb_per_btc |-> acb_per_btc(tc, tb)]

get_summary(l, tc, tb, tax_year) ==
    LET entries == entries_of(l, tax_year)
        acc == AccumulateAll(entries, Len(entries))
        net_gain == acc.total_gains - acc.total_losses
        pool == reported_pool(l, tc, tb, tax_year)
    IN [total_gains |-> acc.total_gains,
        total_losses |-> acc.total_losses,
        net_capital_gain |-> net_gain,
        taxable_capital_gain |-> taxable_gain_of(net_gain),
        inclusion_rate |-> INCLUSION_RATE_TENTHS,
        superficial_loss_count |-> acc.superficial_count,
        current_holdings_btc |-> pool.current_holdings_btc,
        current_acb_total |-> pool.current_acb_total,
        current_acb_per_btc |-> pool.current_acb_per_btc]

\* the tax_year arguments: None, and the years of the dates of the inputs
TaxYears == {None, <<2023>>, <<2024>>}

\* float(Decimal): the nearest double.  Every amount of the model has fewer
\* than 15 significant digits, where the double prints back as the same
\* decimal, so the row value is the entry's value
float_of(x) == x

\* lines 378-389: the row of one disposition; Notes holds a text as the
\* entry's note does
schedule_3_row(entry) ==
    [date_of_disposition |-> entry.date,
     description |-> entry.tx_type,
     number_of_units |-> float_of(entry.amount_btc),
     proceeds_of_disposition |-> float_of(entry.proceeds[1] + entry.fee_cad),
     adjusted_cost_base |-> float_of(entry.cost_basis[1]),
     outlays_and_expenses |-> float_of(entry.fee_cad),
     gain_or_loss |-> float_of(entry.capital_gain[1]),
     superficial_loss |-> IF entry.superficial_loss_flag
                          THEN "YES - REVIEW" ELSE "No",
     notes |-> IF entry.superficial_loss_flag
               THEN entry.superficial_loss_note
               ELSE [text |-> entry.label, acquired_on |-> None]]

\* lines 370-392; the empty DataFrame has no rows
export_for_schedule_3(l, tax_year) ==
    LET dispositions ==
          SelectSeq(l, LAMBDA e : e.capital_gain # None
                                  /\ YearOf(e.date) = tax_year)
    IN [k \in 1..Len(dispositions) |-> schedule_3_row(dispositions[k])]

ExportYears == {2023, 2024}

\* --------------------------------------------------------------- actions
\* ------------------------------------------- parsers.py: price provider
\* the first day of each month from 2023-12 to 2025-03, and strftime('%Y-%m')
\* of a day from 2023-12-01 on
MonthStarts ==
    <<-4, 27, 58, 87, 118, 148, 179, 209, 240, 271, 301, 332, 362, 393, 424,
      452>>

MonthNames ==
    <<"2023-12", "2024-01", "2024-02", "2024-03", "2024-04", "2024-05",
      "2024-06", "2024-07", "2024-08", "2024-09", "2024-10", "2024-11",
      "2024-12", "2025-01", "2025-02", "2025-03">>

month_str(date) ==
    MonthNames[Cardinality({k \in 1..Len(MonthStarts) : MonthStarts[k] <= date})]

\* lines 339-365, in cents
fallback_monthly ==
    [m \in {"2023-01", "2023-02", "2023-03", "2023-04", "2023-05", "2023-06",
            "2023-07", "2023-08", "2023-09", "2023-10", "2023-11", "2023-12",
            "2024-01", "2024-02", "2024-03", "2024-04", "2024-05", "2024-06",
            "2024-07", "2024-08", "2024-09", "2024-10", "2024-11", "2024-12",
            "2025-01"} |->
       CASE m = "2023-01" -> 2300000 [] m = "2023-02" -> 3100000
         [] m = "2023-03" -> 3700000 [] m = "2023-04" -> 3900000
         [] m = "2023-05" -> 3700000 [] m = "2023-06" -> 4100000
         [] m = "2023-07" -> 4000000 [] m = "2023-08" -> 3600000
         [] m = "2023-09" -> 3600000 [] m = "2023-10" -> 4600000
         [] m = "2023-11" -> 5000000 [] m = "2023-12" -> 5800000
         [] m = "2024-01" -> 5800000 [] m = "2024-02" -> 7000000
         [] m = "2024-03" -> 9000000 [] m = "2024-04" -> 8500000
         [] m = "2024-05" -> 8700000 [] m = "2024-06" -> 8500000
         [] m = "2024-07" -> 8800000 [] m = "2024-08" -> 8000000
         [] m = "2024-09" -> 7800000 [] m = "2024-10" -> 9200000
         [] m = "2024-11" -> 12500000 [] m = "2024-12" -> 13000000
         [] m = "2025-01" -> 13500000]

\* variant of nearest: the later day is tried before the earlier one
RECURSIVE nearest_later_first(_, _, _)
nearest_later_first(P, date, days_offset) ==
    IF days_offset > NEAREST_DAYS THEN None
    ELSE IF date + days_offset \in DOMAIN P
         THEN Some([price |-> P[date + days_offset], source |-> "nearest",
                    delta |-> days_offset])
         ELSE IF date - days_offset \in DOMAIN P
              THEN Some([price |-> P[date - days_offset],
                         source |-> "nearest", delta |-> -days_offset])
              ELSE nearest_later_first(P, date, days_offset + 1)

\* lines 449-454: for days_offset in range(1, 8): for delta in [-d, +d]
RECURSIVE nearest(_, _, _)
nearest(P, date, days_offset) ==
    IF days_offset > NEAREST_DAYS THEN None
    ELSE IF date - days_offset \in DOMAIN P
         THEN Some([price |-> P[date - days_offset], source |-> "nearest",
                    delta |-> -days_offset])
         ELSE IF date + days_offset \in DOMAIN P
              THEN Some([price |-> P[date + days_offset],
                         source |-> "nearest", delta |-> days_offset])
              ELSE nearest(P, date, days_offset + 1)

\* lines 430-462; P is self.prices
get_price(P, date) ==
    IF date \in DOMAIN P
    THEN [price |-> P[date], source |-> "exact", delta |-> 0]
    ELSE LET n == nearest(P, date, 1)
         IN IF n # None THEN n[1]
            ELSE IF month_str(date) \in DOMAIN fallback_monthly
                 THEN [price |-> fallback_monthly[month_str(date)],
                       source |-> "monthly_fallback", delta |-> 0]
                 ELSE [price |-> 0, source |-> "NO_PRICE_DATA", delta |-> 0]

\* lines 561-576: the body of the loop for one transaction
priced(P, tx) == [tx EXCEPT !.price_cad = get_price(P, tx.date).price]

warnings_for(P, tx) ==
    LET r == get_price(P, tx.date)
    IN IF r.source = "NO_PRICE_DATA"
       THEN <<[date |-> tx.date, text |-> "No price data available"]>>
       ELSE IF r.source = "monthly_fallback"
            THEN <<[date |-> tx.date, text |-> "Using monthly average price"]>>
            ELSE <<>>

RECURSIVE WarningsUpTo(_, _, _)
WarningsUpTo(P, txs, n) ==
    IF n = 0 THEN <<>>
    ELSE WarningsUpTo(P, txs, n - 1) \o warnings_for(P, txs[n])

\* variant of add_prices_to_transactions: a transaction without a price is
\* left out of the result
add_prices_dropping_unresolved(txs, P) ==
    [transactions |->
       SelectSeq([k \in 1..Len(txs) |-> priced(P, txs[k])],
                 LAMBDA tx : get_price(P, tx.date).source # "NO_PRICE_DATA"),
     warnings |-> WarningsUpTo(P, txs, Len(txs))]

\* lines 537-578
add_prices_to_transactions(txs, P) ==
    [transactions |-> [k \in 1..Len(txs) |-> priced(P, txs[k])],
     warnings |-> WarningsUpTo(P, txs, Len(txs))]

\* what the provider can be loaded with and what the parser can deliver:
\* days around 2024-01-15 (day 41, a month with a fallback) and 2025-02-15
\* (day 438, a month without one)
PriceDays == {33, 34, 40, 41, 42, 48, 431, 446}

PricePoints == {[date |-> d, price |-> 6000000 + (1000 * d)] : d \in PriceDays}

ParsedSet ==
    [date : {41, 438}, tx_type : {"buy", "sell"}, amount_btc : {2},
     price_cad : {0}, fee_cad : {0}, label : {""}]

\* the calculator is used on its own: no provider, no script run
NoPipeline ==
    /\ prices = <<>>
    /\ parsed = <<>>
    /\ price_warnings = <<>>
    /\ stage = "none"

NoApp ==
    /\ session_state = <<>>
    /\ app_pc = "none"
    /\ attempt = 0
    /\ provider_calls = 0
    /\ fetch_calls = 0
    /\ fetch_result = "none"
    /\ fetch_caller = "none"
    /\ runs = 0
    /\ fresh_session = TRUE

Init ==
    /\ transactions = <<>>
    /\ total_cost = 0
    /\ total_btc = 0
    /\ ledger = <<>>
    /\ recent_transactions = <<>>
    /\ arg = <<>>
    /\ sorted_txs = <<>>
    /\ pos = 0
    /\ pc = "idle"
    /\ sorted_idx = <<>>
    /\ ledger_idx = <<>>
    /\ pre_clamp = <<0, 0>>
    /\ prior = "fresh"
    /\ unit \in Units
    /\ summary = <<>>
    /\ summaries = {}
    /\ schedule_3 = <<>>
    /\ NoPipeline
    /\ NoApp

\* the caller assembles the list it will pass (app.py:216-233); reading a
\* summary is the last thing a caller does with a result (app.py:243)
AddTransaction(tx) ==
    /\ pc \in {"idle", "returned"}
    /\ summary = <<>>
    /\ tx \in InputsIn(unit)
    /\ Len(transactions) < MaxTxs
    /\ transactions' = Append(transactions, tx)
    /\ summary' = <<>>
    /\ UNCHANGED <<total_cost, total_btc, ledger, recent_transactions, arg,
                   sorted_txs, pos, pc, sorted_idx, ledger_idx, pre_clamp,
                   prior, unit>>
    /\ UNCHANGED <<summaries, schedule_3, price_vars, app_vars>>

\* variant of ProcessTransactions: the pool is not reset
ProcessTransactionsKeepsPool ==
    /\ pc \in {"idle", "returned"}
    /\ arg' = transactions
    /\ sorted_idx' = sorted_by_date(transactions)
    /\ sorted_txs' = [k \in 1..Len(transactions) |->
                         transactions[sorted_idx'[k]]]
    /\ ledger' = <<>>
    /\ recent_transactions' = <<>>
    /\ pos' = 1
    /\ pc' = "loop"
    /\ ledger_idx' = <<>>
    /\ pre_clamp' = <<0, 0>>
    /\ prior' = IF pc = "idle" THEN "fresh"
                ELSE IF transactions = arg THEN "same" ELSE "other"
    /\ summary' = <<>>
    /\ UNCHANGED <<transactions, total_cost, total_btc, unit>>
    /\ summaries' = {}
    /\ UNCHANGED <<schedule_3, price_vars, app_vars>>

\* process_transactions, lines 127-133: sort, then reset
ProcessTransactions ==
    /\ pc \in {"idle", "returned"}
    /\ arg' = transactions
    /\ sorted_idx' = sorted_by_date(transactions)
    /\ sorted_txs' = [k \in 1..Len(transactions) |->
                         transactions[sorted_idx'[k]]]
    /\ ledger' = <<>>
    /\ total_cost' = 0
    /\ total_btc' = 0
    /\ recent_transactions' = <<>>
    /\ pos' = 1
    /\ pc' = "loop"
    /\ ledger_idx' = <<>>
    /\ pre_clamp' = <<0, 0>>
    /\ prior' = IF pc = "idle" THEN "fresh"
                ELSE IF transactions = arg THEN "same" ELSE "other"
    /\ summary' = <<>>
    /\ UNCHANGED <<transactions, unit>>
    /\ summaries' = {}
    /\ UNCHANGED <<schedule_3, price_vars, app_vars>>

\* variant of LoopAcquisition: the entries already emitted are restated
\* with the new per-unit cost
LoopAcquisitionRestating ==
    /\ pc = "loop"
    /\ pos <= Len(sorted_txs)
    /\ sorted_txs[pos].tx_type \in Acquisitions
    /\ LET r == _process_acquisition(total_cost, total_btc, sorted_txs[pos])
       IN /\ total_cost' = r.total_cost
          /\ total_btc' = r.total_btc
          /\ ledger' = Append([k \in 1..Len(ledger) |->
                                 [ledger[k] EXCEPT !.acb_per_btc =
                                                     r.entry.acb_per_btc]],
                              r.entry)
          /\ pre_clamp' = <<r.total_cost, r.total_btc>>
    /\ recent_transactions' = Append(recent_transactions, sorted_txs[pos])
    /\ ledger_idx' = Append(ledger_idx, sorted_idx[pos])
    /\ pos' = pos + 1
    /\ UNCHANGED <<transactions, arg, sorted_txs, pc, sorted_idx, prior,
                   unit, summary>>
    /\ UNCHANGED <<summaries, schedule_3, price_vars, app_vars>>

\* one iteration of the for loop, lines 135-145
LoopAcquisition ==
    /\ pc = "loop"
    /\ pos <= Len(sorted_txs)
    /\ sorted_txs[pos].tx_type \in Acquisitions
    /\ LET r == _process_acquisition(total_cost, total_btc, sorted_txs[pos])
       IN /\ total_cost' = r.total_cost
          /\ total_btc' = r.total_btc
          /\ ledger' = Append(ledger, r.entry)
          /\ pre_clamp' = <<r.total_cost, r.total_btc>>
    /\ recent_transactions' = Append(recent_transactions, sorted_txs[pos])
    /\ ledger_idx' = Append(ledger_idx, sorted_idx[pos])
    /\ pos' = pos + 1
    /\ UNCHANGED <<transactions, arg, sorted_txs, pc, sorted_idx, prior,
                   unit, summary>>
    /\ UNCHANGED <<summaries, schedule_3, price_vars, app_vars>>

LoopDisposition ==
    /\ pc = "loop"
    /\ pos <= Len(sorted_txs)
    /\ sorted_txs[pos].tx_type \notin Acquisitions
    /\ sorted_txs[pos].tx_type \in Dispositions
    /\ LET r == _process_disposition(total_cost, total_btc,
                                     recent_transactions, sorted_txs[pos])
       IN /\ total_cost' = r.total_cost
          /\ total_btc' = r.total_btc
          /\ ledger' = Append(ledger, r.entry)
          /\ pre_clamp' = r.pre_clamp
    /\ recent_transactions' = Append(recent_transactions, sorted_txs[pos])
    /\ ledger_idx' = Append(ledger_idx, sorted_idx[pos])
    /\ pos' = pos + 1
    /\ UNCHANGED <<transactions, arg, sorted_txs, pc, sorted_idx, prior,
                   unit, summary>>
    /\ UNCHANGED <<summaries, schedule_3, price_vars, app_vars>>

\* variant of LoopSkip: a kind that is no acquisition is taken for a
\* disposition
LoopSkipAsDisposition ==
    /\ pc = "loop"
    /\ pos <= Len(sorted_txs)
    /\ sorted_txs[pos].tx_type \notin Acquisitions
    /\ sorted_txs[pos].tx_type \notin Dispositions
    /\ LET r == _process_disposition(total_cost, total_btc,
                                     recent_transactions, sorted_txs[pos])
       IN /\ total_cost' = r.total_cost
          /\ total_btc' = r.total_btc
          /\ ledger' = Append(ledger, r.entry)
          /\ pre_clamp' = r.pre_clamp
    /\ recent_transactions' = Append(recent_transactions, sorted_txs[pos])
    /\ ledger_idx' = Append(ledger_idx, sorted_idx[pos])
    /\ pos' = pos + 1
    /\ UNCHANGED <<transactions, arg, sorted_txs, pc, sorted_idx, prior,
                   unit, summary>>
    /\ UNCHANGED <<summaries, schedule_3, price_vars, app_vars>>

\* the else branch, lines 140-142: continue
LoopSkip ==
    /\ pc = "loop"
    /\ pos <= Len(sorted_txs)
    /\ sorted_txs[pos].tx_type \notin Acquisitions
    /\ sorted_txs[pos].tx_type \notin Dispositions
    /\ pos' = pos + 1
    /\ UNCHANGED <<transactions, total_cost, total_btc, ledger,
                   recent_transactions, arg, sorted_txs, pc, sorted_idx,
                   ledger_idx, pre_clamp, prior, unit, summary>>
    /\ UNCHANGED <<summaries, schedule_3, price_vars, app_vars>>

\* line 147: return self.ledger
Return ==
    /\ pc = "loop"
    /\ pos > Len(sorted_txs)
    /\ pc' = "returned"
    /\ UNCHANGED <<transactions, total_cost, total_btc, ledger,
                   recent_transactions, arg, sorted_txs, pos, sorted_idx,
                   ledger_idx, pre_clamp, prior, unit, summary>>
    /\ UNCHANGED <<summaries, schedule_3, price_vars, app_vars>>

\* variant of GetSummary: summarizing empties the ledger
GetSummaryClearing(tax_year) ==
    /\ pc \in {"idle", "returned"}
    /\ transactions = arg
    /\ summary' = <<[tax_year |-> tax_year,
                     result |-> get_summary(ledger, total_cost, total_btc,
                                            tax_year)]>>
    /\ ledger' = <<>>
    /\ UNCHANGED <<transactions, total_cost, total_btc,
                   recent_transactions, arg, sorted_txs, pos, pc, sorted_idx,
                   ledger_idx, pre_clamp, prior, unit>>
    /\ summaries' = summaries \cup {summary'[1]}
    /\ UNCHANGED <<schedule_3, price_vars, app_vars>>

\* export_for_schedule_3(tax_year), lines 356-392, called on the finished
\* calculator (app.py:416-418)
ExportForSchedule3(tax_year) ==
    /\ pc = "returned"
    /\ transactions = arg
    /\ schedule_3' = <<[tax_year |-> tax_year,
                        rows |-> export_for_schedule_3(ledger, tax_year)]>>
    /\ UNCHANGED <<transactions, total_cost, total_btc, ledger,
                   recent_transactions, arg, sorted_txs, pos, pc, sorted_idx,
                   ledger_idx, pre_clamp, prior, unit, summary, summaries>>
    /\ UNCHANGED <<price_vars, app_vars>>

\* get_summary(tax_year), lines 305-354, called on the result of the call
\* just made (app.py:242-243) or on a calculator not used yet
GetSummary(tax_year) ==
    /\ pc \in {"idle", "returned"}
    /\ transactions = arg
    /\ summary' = <<[tax_year |-> tax_year,
                     result |-> get_summary(ledger, total_cost, total_btc,
                                            tax_year)]>>
    /\ UNCHANGED <<transactions, total_cost, total_btc, ledger,
                   recent_transactions, arg, sorted_txs, pos, pc, sorted_idx,
                   ledger_idx, pre_clamp, prior, unit>>
    /\ summaries' = summaries \cup {summary'[1]}
    /\ UNCHANGED <<schedule_3, price_vars, app_vars>>

Next ==
    \/ \E tx \in TxSet \cup FixtureSet : AddTransaction(tx)
    \/ ProcessTransactions
    \/ LoopAcquisition
    \/ LoopDisposition
    \/ LoopSkip
    \/ Return

Spec == Init /\ [][Next]_vars

\* A calculator used as app.py:241-243 uses it: the list is complete before
\* the calculator sees it, the calculator makes one run, and summaries are
\* read from its result.
AddBeforeCall ==
    /\ pc = "idle"
    /\ \E tx \in TxSet \cup FixtureSet : AddTransaction(tx)

CallOnce ==
    /\ pc = "idle"
    /\ ProcessTransactions

\* one run of a new calculator on a finished list
NextRun ==
    \/ AddBeforeCall
    \/ CallOnce
    \/ LoopAcquisition
    \/ LoopDisposition
    \/ LoopSkip
    \/ Return

SpecRun == Init /\ [][NextRun]_vars

NextSummary ==
    \/ AddBeforeCall
    \/ CallOnce
    \/ LoopAcquisition
    \/ LoopDisposition
    \/ LoopSkip
    \/ Return
    \/ \E tax_year \in TaxYears : GetSummary(tax_year)

SpecSummary == Init /\ [][NextSummary]_vars

\* The export of app.py:416-418: one run, then exports of the result.
NextExport ==
    \/ AddBeforeCall
    \/ CallOnce
    \/ LoopAcquisition
    \/ LoopDisposition
    \/ LoopSkip
    \/ Return
    \/ \E tax_year \in ExportYears : ExportForSchedule3(tax_year)

SpecExport == Init /\ [][NextExport]_vars

\* The pipeline of app.py process_transactions (213-252): the provider holds
\* what was loaded, the parser's transactions carry price 0, prices are added
\* and a new calculator processes the list.
InitPipeline ==
    /\ transactions = <<>>
    /\ total_cost = 0
    /\ total_btc = 0
    /\ ledger = <<>>
    /\ recent_transactions = <<>>
    /\ arg = <<>>
    /\ sorted_txs = <<>>
    /\ pos = 0
    /\ pc = "idle"
    /\ sorted_idx = <<>>
    /\ ledger_idx = <<>>
    /\ pre_clamp = <<0, 0>>
    /\ prior = "fresh"
    /\ unit = "twentieth_btc"
    /\ summary = <<>>
    /\ summaries = {}
    /\ schedule_3 = <<>>
    /\ prices = <<>>
    /\ parsed = <<>>
    /\ price_warnings = <<>>
    /\ stage = "parsing"
    /\ NoApp

\* self.prices[date_str] = price (parsers.py:417, 519)
LoadPrice(pt) ==
    /\ stage = "parsing"
    /\ prices' = [d \in DOMAIN prices \cup {pt.date} |->
                    IF d = pt.date THEN pt.price ELSE prices[d]]
    /\ UNCHANGED <<parsed, price_warnings, stage>>
    /\ UNCHANGED <<engine_vars, app_vars>>

\* parse_sparrow_csv appends a transaction with price 0 (parsers.py:151-159)
ParseTransaction(tx) ==
    /\ stage = "parsing"
    /\ Len(transactions) < MaxTxs
    /\ transactions' = Append(transactions, tx)
    /\ UNCHANGED <<total_cost, total_btc, ledger, recent_transactions, arg,
                   sorted_txs, pos, pc, sorted_idx, ledger_idx, pre_clamp,
                   prior, unit, summary, summaries, schedule_3>>
    /\ UNCHANGED <<price_vars, app_vars>>

\* app.py:225-233
AddPricesToTransactions ==
    /\ stage = "parsing"
    /\ transactions # <<>>
    /\ parsed' = transactions
    /\ LET r == add_prices_to_transactions(transactions, prices)
       IN /\ transactions' = r.transactions
          /\ price_warnings' = r.warnings
    /\ stage' = "priced"
    /\ UNCHANGED <<total_cost, total_btc, ledger, recent_transactions, arg,
                   sorted_txs, pos, pc, sorted_idx, ledger_idx, pre_clamp,
                   prior, unit, summary, summaries, schedule_3>>
    /\ UNCHANGED <<prices, app_vars>>

\* app.py:241-242
CallPriced ==
    /\ stage = "priced"
    /\ CallOnce

NextPipeline ==
    \/ \E pt \in PricePoints : LoadPrice(pt)
    \/ \E tx \in ParsedSet : ParseTransaction(tx)
    \/ AddPricesToTransactions
    \/ CallPriced
    \/ LoopAcquisition
    \/ LoopDisposition
    \/ Return

SpecPipeline == InitPipeline /\ [][NextPipeline]_vars

\* ------------------------------------------------- app.py: script runs
\* st.session_state: a key that was never set has no value; reading it as
\* an attribute raises AttributeError
Unset == "unset"

SessionKeys ==
    {"transactions", "ledger", "summary", "price_provider",
     "price_fetch_attempted", "prices_loaded", "selected_year"}

DefaultedKeys == {"transactions", "ledger", "summary", "price_provider"}

\* Python truth of a session value
truthy(v) == v = "True"

\* The sessions a script run can find: the empty session of a first run, and
\* sessions whose keys hold values from before.
StartingSessions ==
    {ss \in [SessionKeys -> {Unset, "set", "True", "False"}] :
       /\ \A k \in DefaultedKeys \cup {"selected_year"} :
            ss[k] = ss["transactions"]
       /\ ss["transactions"] \in {Unset, "set"}
       /\ ss["price_fetch_attempted"] \in {Unset, "True", "False"}
       /\ ss["prices_loaded"] \in {Unset, "True", "False"}}

InitApp ==
    /\ transactions = <<>>
    /\ total_cost = 0
    /\ total_btc = 0
    /\ ledger = <<>>
    /\ recent_transactions = <<>>
    /\ arg = <<>>
    /\ sorted_txs = <<>>
    /\ pos = 0
    /\ pc = "idle"
    /\ sorted_idx = <<>>
    /\ ledger_idx = <<>>
    /\ pre_clamp = <<0, 0>>
    /\ prior = "fresh"
    /\ unit = "half_satoshi"
    /\ summary = <<>>
    /\ summaries = {}
    /\ schedule_3 = <<>>
    /\ NoPipeline
    /\ session_state \in StartingSessions
    /\ app_pc = "idle"
    /\ attempt = 0
    /\ provider_calls = 0
    /\ fetch_calls = 0
    /\ fetch_result = "none"
    /\ fetch_caller = "none"
    /\ runs = 0
    /\ fresh_session = (\A k \in SessionKeys : session_state[k] = Unset)

\* main() starts a script run (app.py:584-586); a run that raised is
\* followed by the next run like any other
StartRun ==
    /\ app_pc \in {"idle", "AttributeError"}
    /\ runs < MaxRuns
    /\ runs' = runs + 1
    /\ app_pc' = "init_defaults"
    /\ fetch_calls' = 0
    /\ fetch_result' = "none"
    /\ provider_calls' = 0
    /\ UNCHANGED <<session_state, attempt, fetch_caller, fresh_session>>
    /\ UNCHANGED <<engine_vars, price_vars>>

\* init_session_state, lines 47-56
InitDefaults ==
    /\ app_pc = "init_defaults"
    /\ session_state' =
         [k \in SessionKeys |->
            IF session_state[k] # Unset THEN session_state[k]
            ELSE IF k \in DefaultedKeys THEN "set"
            ELSE IF k = "price_fetch_attempted" THEN "False"
            ELSE Unset]
    /\ app_pc' = "auto_fetch"
    /\ UNCHANGED <<attempt, provider_calls, fetch_calls, fetch_result,
                   fetch_caller, runs, fresh_session>>
    /\ UNCHANGED <<engine_vars, price_vars>>

\* init_session_state, lines 59-60
AutoFetch ==
    /\ app_pc = "auto_fetch"
    /\ IF session_state["prices_loaded"] = Unset
       THEN /\ app_pc' = "AttributeError"
            /\ UNCHANGED <<fetch_calls, fetch_caller>>
       ELSE IF /\ ~truthy(session_state["prices_loaded"])
               /\ ~truthy(session_state["price_fetch_attempted"])
            THEN /\ app_pc' = "fetch_prices"
                 /\ fetch_calls' = fetch_calls + 1
                 /\ fetch_caller' = "init"
            ELSE /\ app_pc' = "selected_year"
                 /\ UNCHANGED <<fetch_calls, fetch_caller>>
    /\ UNCHANGED <<session_state, attempt, provider_calls, fetch_result, runs,
                   fresh_session>>
    /\ UNCHANGED <<engine_vars, price_vars>>

\* where fetch_prices returns to: the rest of init_session_state, or
\* st.rerun() (line 124), which ends the script run
after_fetch == IF fetch_caller = "init" THEN "selected_year" ELSE "idle"

\* fetch_prices, lines 71-75
FetchBegin ==
    /\ app_pc = "fetch_prices"
    /\ session_state' =
         [session_state EXCEPT !["price_fetch_attempted"] = "True"]
    /\ attempt' = 0
    /\ provider_calls' = 0
    /\ fetch_result' = "running"
    /\ app_pc' = "fetch_loop"
    /\ UNCHANGED <<fetch_calls, fetch_caller, runs, fresh_session>>
    /\ UNCHANGED <<engine_vars, price_vars>>

\* variant of FetchAttempt: the loop goes on after a successful call
FetchAttemptNoReturn(success) ==
    /\ app_pc = "fetch_loop"
    /\ attempt < max_retries
    /\ provider_calls' = provider_calls + 1
    /\ attempt' = attempt + 1
    /\ app_pc' = "fetch_loop"
    /\ IF success
       THEN /\ session_state' =
                 [session_state EXCEPT !["prices_loaded"] = "True"]
            /\ fetch_result' = "success"
       ELSE UNCHANGED <<session_state, fetch_result>>
    /\ UNCHANGED <<fetch_calls, fetch_caller, runs, fresh_session>>
    /\ UNCHANGED <<engine_vars, price_vars>>

\* fetch_prices, one iteration of the loop, lines 76-85; success is what
\* fetch_from_coingecko returned
FetchAttempt(success) ==
    /\ app_pc = "fetch_loop"
    /\ attempt < max_retries
    /\ provider_calls' = provider_calls + 1
    /\ IF success
       THEN /\ session_state' =
                 [session_state EXCEPT !["prices_loaded"] = "True"]
            /\ fetch_result' = "success"
            /\ app_pc' = after_fetch
            /\ UNCHANGED attempt
       ELSE /\ attempt' = attempt + 1
            /\ app_pc' = "fetch_loop"
            /\ UNCHANGED <<session_state, fetch_result>>
    /\ UNCHANGED <<fetch_calls, fetch_caller, runs, fresh_session>>
    /\ UNCHANGED <<engine_vars, price_vars>>

\* fetch_prices, lines 87-88: the loop ran out
FetchGiveUp ==
    /\ app_pc = "fetch_loop"
    /\ attempt >= max_retries
    /\ fetch_result' = "failed"
    /\ app_pc' = after_fetch
    /\ UNCHANGED <<session_state, attempt, provider_calls, fetch_calls,
                   fetch_caller, runs, fresh_session>>
    /\ UNCHANGED <<engine_vars, price_vars>>

\* init_session_state, lines 63-64
InitSelectedYear ==
    /\ app_pc = "selected_year"
    /\ session_state' =
         [session_state EXCEPT !["selected_year"] =
                                 IF @ = Unset THEN "set" ELSE @]
    /\ app_pc' = "sidebar"
    /\ UNCHANGED <<attempt, provider_calls, fetch_calls, fetch_result,
                   fetch_caller, runs, fresh_session>>
    /\ UNCHANGED <<engine_vars, price_vars>>

\* render_sidebar, lines 115-124: the Retry button
RetryButton ==
    /\ app_pc = "sidebar"
    /\ ~truthy(session_state["prices_loaded"])
    /\ app_pc' = "fetch_prices"
    /\ fetch_caller' = "retry"
    /\ UNCHANGED <<session_state, attempt, provider_calls, fetch_calls,
                   fetch_result, runs, fresh_session>>
    /\ UNCHANGED <<engine_vars, price_vars>>

\* render_sidebar, lines 135-141: a price CSV was uploaded
UploadPriceCsv(success) ==
    /\ app_pc = "sidebar"
    /\ session_state' =
         IF success
         THEN [session_state EXCEPT !["prices_loaded"] = "True"]
         ELSE session_state
    /\ app_pc' = "rendered"
    /\ UNCHANGED <<attempt, provider_calls, fetch_calls, fetch_result,
                   fetch_caller, runs, fresh_session>>
    /\ UNCHANGED <<engine_vars, price_vars>>

\* the script run ends
FinishRun ==
    /\ app_pc \in {"sidebar", "rendered"}
    /\ app_pc' = "idle"
    /\ UNCHANGED <<session_state, attempt, provider_calls, fetch_calls,
                   fetch_result, fetch_caller, runs, fresh_session>>
    /\ UNCHANGED <<engine_vars, price_vars>>

NextApp ==
    \/ StartRun
    \/ InitDefaults
    \/ AutoFetch
    \/ FetchBegin
    \/ \E success \in BOOLEAN : FetchAttempt(success)
    \/ FetchGiveUp
    \/ InitSelectedYear
    \/ RetryButton
    \/ \E success \in BOOLEAN : UploadPriceCsv(success)
    \/ FinishRun

SpecApp == InitApp /\ [][NextApp]_vars

\* ------------------------------------------------------ claim vocabulary
IsDisposal(e) == e.tx_type \in Dispositions
IsAcquisition(e) == e.tx_type \in Acquisitions

\* P is n/d rounded half-up to an integer (ties away from zero), d > 0,
\* stated as the bracketing inequalities rather than by computing it
IsHalfUpQuotient(P, n, d) ==
    /\ (n >= 0 => P >= 0)
    /\ (n <= 0 => P <= 0)
    /\ 2 * Abs(P) * d <= 2 * Abs(n) + d
    /\ 2 * Abs(n) + d < 2 * (Abs(P) + 1) * d

\* P is the per-unit cost of the pool (tc, tb)
IsPerUnitCost(P, tc, tb) ==
    IF tb > 0 THEN IsHalfUpQuotient(P, tc, tb) ELSE P = 0

\* the loop is about to process a disposal / an acquisition and does so
DisposalStep ==
    /\ pc = "loop" /\ pos <= Len(sorted_txs)
    /\ sorted_txs[pos].tx_type \in Dispositions
    /\ pos' = pos + 1
AcquisitionStep ==
    /\ pc = "loop" /\ pos <= Len(sorted_txs)
    /\ sorted_txs[pos].tx_type \in Acquisitions
    /\ pos' = pos + 1

LastEntry(l) == l[Len(l)]

\* the per-unit cost reported by the entry before entry k (0 before the first)
PerUnitBefore(l, k) == IF k = 1 THEN 0 ELSE l[k - 1].acb_per_btc

\* ------------------------------------------------------------------ C1
\* C1: every disposal step, with P the per-unit cost of the pool before it
\* (total_cost/total_units rounded half-up, 0 for an empty pool), appends an
\* entry with proceeds = quantity*unit_price - fee, cost_basis = quantity*P,
\* gain = proceeds - cost_basis, and leaves the pool, before the dust clamp,
\* at total_cost - cost_basis and total_units - quantity: one P for both.
C1_DisposalArithmetic ==
    [][DisposalStep =>
        LET tx == sorted_txs[pos]
            e == LastEntry(ledger')
        IN /\ Len(ledger') = Len(ledger) + 1
           /\ LET P == e.cost_basis[1] \div tx.amount_btc
              IN
                /\ IsPerUnitCost(P, total_cost, total_btc)
                /\ e.proceeds = <<tx.amount_btc * tx.price_cad - tx.fee_cad>>
                /\ e.cost_basis = <<tx.amount_btc * P>>
                /\ e.capital_gain = <<e.proceeds[1] - e.cost_basis[1]>>
                /\ pre_clamp' = <<total_cost - e.cost_basis[1],
                                  total_btc - tx.amount_btc>>]_vars

\* a disposal with a fee, from a pool whose per-unit cost is a rounded tie,
\* that leaves units in the pool
C1_Witness ==
    /\ Len(ledger) >= 3
    /\ IsDisposal(LastEntry(ledger))
    /\ LastEntry(ledger).fee_cad > 0
    /\ LastEntry(ledger).cost_basis[1] > 0
    /\ ledger[Len(ledger) - 1].total_cost_after * 2
         = ledger[Len(ledger) - 1].total_btc_after
    /\ total_btc > 0

\* ------------------------------------------------------------------ C2
\* C2: every acquisition step raises total_cost by quantity*unit_price + fee
\* and total_units by quantity, and appends an entry carrying the pool after
\* the step, with proceeds, cost_basis and gain absent and the flag false.
C2_AcquisitionArithmetic ==
    [][AcquisitionStep =>
        LET tx == sorted_txs[pos]
            e == LastEntry(ledger')
        IN /\ Len(ledger') = Len(ledger) + 1
           /\ total_cost' = total_cost + tx.amount_btc * tx.price_cad + tx.fee_cad
           /\ total_btc' = total_btc + tx.amount_btc
           /\ e.total_cost_after = total_cost'
           /\ e.total_btc_after = total_btc'
           /\ IsPerUnitCost(e.acb_per_btc, total_cost', total_btc')
           /\ e.proceeds = None /\ e.cost_basis = None /\ e.capital_gain = None
           /\ e.superficial_loss_flag = FALSE]_vars

\* an acquisition with a price and a fee, into a pool that is not empty
C2_Witness ==
    /\ Len(ledger) >= 2
    /\ IsAcquisition(LastEntry(ledger))
    /\ LastEntry(ledger).fee_cad > 0
    /\ LastEntry(ledger).price_cad > 0
    /\ ledger[Len(ledger) - 1].total_btc_after > 0

\* ------------------------------------------------------------------ C3
\* C3: whatever the order of the argument, the ledger entries are in
\* non-decreasing timestamp order, entries with equal timestamps are in the
\* order of the argument, each entry echoes the transaction of the argument it
\* was made from, and a finished call has one entry per recognized transaction.
C3_SortedStable ==
    /\ Len(ledger_idx) = Len(ledger)
    /\ \A k \in 1..Len(ledger) :
         /\ ledger_idx[k] \in 1..Len(arg)
         /\ ledger[k].date = arg[ledger_idx[k]].date
         /\ ledger[k].tx_type = arg[ledger_idx[k]].tx_type
         /\ ledger[k].amount_btc = arg[ledger_idx[k]].amount_btc
         /\ ledger[k].price_cad = arg[ledger_idx[k]].price_cad
         /\ ledger[k].fee_cad = arg[ledger_idx[k]].fee_cad
    /\ \A j, k \in 1..Len(ledger) :
         j < k =>
           /\ ledger[j].date <= ledger[k].date
           /\ (ledger[j].date = ledger[k].date => ledger_idx[j] < ledger_idx[k])
    /\ pc = "returned" =>
         {ledger_idx[k] : k \in 1..Len(ledger)}
           = {i \in 1..Len(arg) :
                arg[i].tx_type \in Acquisitions \cup Dispositions}

\* a finished call on an argument that was out of order and held two
\* different transactions with the same timestamp
C3_Witness ==
    /\ pc = "returned"
    /\ Len(ledger) = 3
    /\ \E i \in 1..(Len(arg) - 1) : arg[i].date > arg[i + 1].date
    /\ \E j, k \in 1..Len(ledger) :
         j < k /\ ledger[j].date = ledger[k].date /\ ledger[j] # ledger[k]

\* ------------------------------------------------------------------ C4
\* the result of a call on T by a calculator that was just constructed
RECURSIVE FreshRun(_, _)
FreshRun(S, n) ==
    IF n = 0
    THEN [total_cost |-> 0, total_btc |-> 0, ledger |-> <<>>, recent |-> <<>>]
    ELSE LET b == FreshRun(S, n - 1)
             tx == S[n]
         IN IF tx.tx_type \in Acquisitions
            THEN LET r == _process_acquisition(b.total_cost, b.total_btc, tx)
                 IN [total_cost |-> r.total_cost, total_btc |-> r.total_btc,
                     ledger |-> Append(b.ledger, r.entry),
                     recent |-> Append(b.recent, tx)]
            ELSE IF tx.tx_type \in Dispositions
            THEN LET r == _process_disposition(b.total_cost, b.total_btc,
                                               b.recent, tx)
                 IN [total_cost |-> r.total_cost, total_btc |-> r.total_btc,
                     ledger |-> Append(b.ledger, r.entry),
                     recent |-> Append(b.recent, tx)]
            ELSE b

FreshResult(T) ==
    LET idx == sorted_by_date(T)
        S == [k \in 1..Len(T) |-> T[idx[k]]]
    IN FreshRun(S, Len(S))

\* C4: whatever earlier calls left in the calculator, a finished call on T
\* holds the ledger and the pool a newly constructed calculator would hold
\* after a call on T (so two calls on the same list give the same ledger).
C4_NoCrossCallMemory ==
    pc = "returned" =>
      LET f == FreshResult(arg)
      IN /\ ledger = f.ledger
         /\ total_cost = f.total_cost
         /\ total_btc = f.total_btc
         /\ recent_transactions = f.recent

\* a finished call that started on a calculator holding the result of a call
\* on another list, with a pool that was not empty
C4_Witness ==
    /\ pc = "returned"
    /\ prior = "other"
    /\ Len(ledger) >= 2
    /\ total_btc > 0

\* ------------------------------------------------------------------ C5
\* C5: the cost_basis of every disposal entry is its quantity times the
\* per_unit_cost_after of the entry before it, and 0 for a first entry.
C5_Continuity ==
    \A k \in 1..Len(ledger) :
      IsDisposal(ledger[k]) =>
        ledger[k].cost_basis = <<ledger[k].amount_btc * PerUnitBefore(ledger, k)>>

\* a disposal following an entry whose per-unit cost is a rounded tie
C5_Witness ==
    \E k \in 2..Len(ledger) :
      /\ IsDisposal(ledger[k])
      /\ ledger[k - 1].acb_per_btc > 0
      /\ 2 * ledger[k - 1].total_cost_after
           = (2 * ledger[k - 1].acb_per_btc - 1) * ledger[k - 1].total_btc_after

\* ------------------------------------------------------------------ C6
\* C6: a disposal that leaves units in the pool reports the per-unit cost
\* the pool had before it.
C6_DisposalKeepsPerUnitCost ==
    \A k \in 1..Len(ledger) :
      (IsDisposal(ledger[k]) /\ ledger[k].total_btc_after > 0) =>
        ledger[k].acb_per_btc = PerUnitBefore(ledger, k)

\* ------------------------------------------------------------------ C7
\* C7: total_cost, and the total_cost_after of every entry, is never negative.
C7_TotalCostNonNegative ==
    /\ total_cost >= 0
    /\ \A k \in 1..Len(ledger) : ledger[k].total_cost_after >= 0

\* ------------------------------------------------------------------ C8
\* C8: total_units, and the total_units_after of every entry, is never
\* negative, also when more units are disposed of than are held.
C8_TotalUnitsNonNegative ==
    /\ total_btc >= 0
    /\ \A k \in 1..Len(ledger) : ledger[k].total_btc_after >= 0

\* the last step disposed of more units than the non-empty pool held
C8_Witness ==
    /\ Len(ledger) >= 2
    /\ IsDisposal(LastEntry(ledger))
    /\ ledger[Len(ledger) - 1].total_btc_after > 0
    /\ pre_clamp[2] < 0

\* ------------------------------------------------------------------ C9
\* C9: after every disposal step, if total_units minus the quantity is below
\* 1e-8 (negative included) the pool and the entry's snapshot are exactly
\* (0, 0); otherwise both are the values the subtraction left.  So a disposal
\* entry's total_units_after is 0 or at least 1e-8.
C9_DustClamp ==
    [][DisposalStep =>
        LET tx == sorted_txs[pos]
            e == LastEntry(ledger')
            units == total_btc - tx.amount_btc
        IN /\ pre_clamp'[2] = units
           /\ IF units < epsilon_units
              THEN total_btc' = 0 /\ total_cost' = 0
              ELSE total_btc' = units /\ total_cost' = pre_clamp'[1]
           /\ e.total_btc_after = total_btc'
           /\ e.total_cost_after = total_cost'
           /\ (e.total_btc_after = 0 \/ e.total_btc_after >= epsilon_units)]_vars

\* the last step was a disposal that left a positive amount below 1e-8 and
\* a cost that was not 0
C9_Witness ==
    /\ Len(ledger) >= 1
    /\ IsDisposal(LastEntry(ledger))
    /\ pre_clamp[2] > 0 /\ pre_clamp[2] < epsilon_units
    /\ pre_clamp[1] # 0
    /\ total_btc = 0 /\ total_cost = 0

\* ----------------------------------------------------------------- C10
\* C10: a disposal entry with gain < 0 is flagged exactly when an acquisition
\* entry before it in the ledger has a timestamp t with
\* disposal - 30 days <= t < disposal.
C10_SuperficialLossRule ==
    \A k \in 1..Len(ledger) :
      (IsDisposal(ledger[k]) /\ ledger[k].capital_gain[1] < 0) =>
        (ledger[k].superficial_loss_flag
           <=> \E j \in 1..(k - 1) :
                 /\ IsAcquisition(ledger[j])
                 /\ ledger[k].date - 30 <= ledger[j].date
                 /\ ledger[j].date < ledger[k].date)

\* a flagged loss whose earlier acquisitions are one exactly 30 days before
\* it and one with the loss's own timestamp
C10_Witness ==
    \E k \in 1..Len(ledger) :
      /\ IsDisposal(ledger[k])
      /\ ledger[k].capital_gain[1] < 0
      /\ ledger[k].superficial_loss_flag
      /\ \A j \in 1..(k - 1) :
           IsAcquisition(ledger[j]) =>
             ledger[j].date \in {ledger[k].date - 30, ledger[k].date}
      /\ \E j \in 1..(k - 1) :
           IsAcquisition(ledger[j]) /\ ledger[j].date = ledger[k].date - 30
      /\ \E j \in 1..(k - 1) :
           IsAcquisition(ledger[j]) /\ ledger[j].date = ledger[k].date

\* ----------------------------------------------------------------- C11
\* C11: a disposal entry with gain >= 0 has the flag false and an empty
\* note; a flagged entry is a disposal with gain < 0; a disposal entry with
\* gain < 0 has a note, flagged or not.
C11_DetectorOnlyForLosses ==
    \A k \in 1..Len(ledger) :
      /\ ledger[k].superficial_loss_flag =>
           (IsDisposal(ledger[k]) /\ ledger[k].capital_gain[1] < 0)
      /\ (IsDisposal(ledger[k]) /\ ledger[k].capital_gain[1] >= 0) =>
           /\ ledger[k].superficial_loss_flag = FALSE
           /\ ledger[k].superficial_loss_note.text = ""
      /\ (IsDisposal(ledger[k]) /\ ledger[k].capital_gain[1] < 0) =>
           ledger[k].superficial_loss_note.text # ""

\* a disposal with gain >= 0 that has an acquisition in its window before it,
\* and a loss that is not flagged
C11_Witness ==
    /\ \E k \in 1..Len(ledger) :
         /\ IsDisposal(ledger[k])
         /\ ledger[k].capital_gain[1] >= 0
         /\ \E j \in 1..(k - 1) :
              /\ IsAcquisition(ledger[j])
              /\ ledger[k].date - 30 <= ledger[j].date
              /\ ledger[j].date < ledger[k].date
    /\ \E k \in 1..Len(ledger) :
         /\ IsDisposal(ledger[k])
         /\ ledger[k].capital_gain[1] < 0
         /\ ~ledger[k].superficial_loss_flag

\* ----------------------------------------------------------------- C12
\* C12: a disposal step adds only the processed transaction to the history
\* and leaves earlier entries alone, and its pool, proceeds, cost_basis, gain
\* and snapshot are those of the same disposal with nothing for the detector
\* to find (an empty history), whether or not the entry is flagged.
C12_DetectorOnlyAnnotates ==
    [][DisposalStep =>
        LET tx == sorted_txs[pos]
            e == LastEntry(ledger')
            r == _process_disposition(total_cost, total_btc, <<>>, tx)
        IN /\ recent_transactions' = Append(recent_transactions, tx)
           /\ SubSeq(ledger', 1, Len(ledger)) = ledger
           /\ total_cost' = r.total_cost
           /\ total_btc' = r.total_btc
           /\ e.proceeds = r.entry.proceeds
           /\ e.cost_basis = r.entry.cost_basis
           /\ e.capital_gain = r.entry.capital_gain
           /\ e.total_cost_after = r.entry.total_cost_after
           /\ e.total_btc_after = r.entry.total_btc_after
           /\ e.acb_per_btc = r.entry.acb_per_btc]_vars

\* the last step emitted a flagged loss and left units in the pool
C12_Witness ==
    /\ Len(ledger) >= 2
    /\ IsDisposal(LastEntry(ledger))
    /\ LastEntry(ledger).superficial_loss_flag
    /\ LastEntry(ledger).capital_gain[1] < 0
    /\ total_btc > 0

\* ----------------------------------------------------------------- C13
Recognized(T) ==
    SelectSeq(T, LAMBDA tx : tx.tx_type \in Acquisitions \cup Dispositions)

SkipStep ==
    /\ pc = "loop" /\ pos <= Len(sorted_txs)
    /\ sorted_txs[pos].tx_type \notin Acquisitions \cup Dispositions
    /\ pos' = pos + 1

\* C13: a step on a transaction of no recognized kind changes neither the
\* ledger, the pool nor the detector's history and the loop goes on; a
\* finished call has one entry per recognized transaction, and its ledger is
\* the ledger a new calculator gives for the argument without the
\* unrecognized transactions.
C13_UnrecognizedSkipped ==
    /\ [](pc = "returned" =>
            /\ Len(ledger) = Len(Recognized(arg))
            /\ ledger = FreshResult(Recognized(arg)).ledger)
    /\ [][SkipStep =>
            /\ UNCHANGED <<ledger, total_cost, total_btc, recent_transactions>>
            /\ pc' = "loop"]_vars

\* a finished call whose argument held an unrecognized transaction between
\* two recognized ones
C13_Witness ==
    /\ pc = "returned"
    /\ Len(arg) = 3
    /\ arg[2].tx_type = "transfer"
    /\ Len(ledger) = 2
    /\ total_btc > 0

\* ----------------------------------------------------------------- C14
\* C14: a finished call on an empty list has an empty ledger; a disposal
\* from an empty pool (first entry, or after an entry that left 0 units) has
\* cost_basis 0, gain = proceeds and snapshot (0, 0, 0); a transaction with
\* unit_price 0 gets its entry like any other, an acquisition adding its fee
\* and quantity, a disposal with proceeds = -fee.
C14_NumericEdgeCases ==
    /\ (pc = "returned" /\ arg = <<>>) => ledger = <<>>
    /\ pc = "returned" => Len(ledger) = Len(Recognized(arg))
    /\ \A k \in 1..Len(ledger) :
         LET e == ledger[k]
             units_before == IF k = 1 THEN 0 ELSE ledger[k - 1].total_btc_after
             cost_before == IF k = 1 THEN 0 ELSE ledger[k - 1].total_cost_after
         IN /\ (IsDisposal(e) /\ units_before = 0) =>
                 /\ e.cost_basis = <<0>>
                 /\ e.capital_gain = e.proceeds
                 /\ e.total_cost_after = 0
                 /\ e.total_btc_after = 0
                 /\ e.acb_per_btc = 0
            /\ (IsAcquisition(e) /\ e.price_cad = 0) =>
                 /\ e.total_cost_after = cost_before + e.fee_cad
                 /\ e.total_btc_after = units_before + e.amount_btc
            /\ (IsDisposal(e) /\ e.price_cad = 0) =>
                 e.proceeds = <<-e.fee_cad>>

\* an acquisition, a disposal that empties the pool, then a disposal at
\* price 0 from the empty pool
C14_Witness ==
    /\ Len(ledger) = 3
    /\ IsAcquisition(ledger[1])
    /\ IsDisposal(ledger[2])
    /\ ledger[2].total_btc_after = 0
    /\ IsDisposal(ledger[3])
    /\ ledger[3].price_cad = 0

\* ----------------------------------------------------------------- C15
\* the entries of ledger l that a summary for tax_year covers, by index
InPeriod(l, tax_year) ==
    {k \in 1..Len(l) : tax_year = None \/ YearOf(l[k].date) = tax_year[1]}

RECURSIVE SumGain(_, _)
SumGain(l, K) ==
    IF K = {} THEN 0
    ELSE LET k == CHOOSE k \in K : TRUE
         IN l[k].capital_gain[1] + SumGain(l, K \ {k})

\* C15: in a summary, over the entries of its period (all entries when no
\* period is given), total_gains is the sum of the gains >= 0 of disposals,
\* total_losses the sum of |gain| of the unflagged disposals with gain < 0,
\* superficial_loss_count the number of flagged losses, which add to neither
\* total, acquisitions add nothing, and net = total_gains - total_losses.
C15_SummaryTotals ==
    summary # <<>> =>
      LET s == summary[1].result
          K == InPeriod(ledger, summary[1].tax_year)
          G == {k \in K : IsDisposal(ledger[k])
                           /\ ledger[k].capital_gain[1] >= 0}
          L == {k \in K : /\ IsDisposal(ledger[k])
                          /\ ledger[k].capital_gain[1] < 0
                          /\ ~ledger[k].superficial_loss_flag}
          F == {k \in K : /\ IsDisposal(ledger[k])
                          /\ ledger[k].capital_gain[1] < 0
                          /\ ledger[k].superficial_loss_flag}
      IN /\ s.total_gains = SumGain(ledger, G)
         /\ s.total_losses = -SumGain(ledger, L)
         /\ s.superficial_loss_count = Cardinality(F)
         /\ s.net_capital_gain = s.total_gains - s.total_losses

\* a summary of 2024 over a ledger that starts in 2023 and holds a gain and
\* a flagged loss in 2024
C15_Witness ==
    /\ summary # <<>>
    /\ summary[1].tax_year = <<2024>>
    /\ Len(ledger) = 3
    /\ YearOf(ledger[1].date) = 2023
    /\ summary[1].result.total_gains > 0
    /\ summary[1].result.superficial_loss_count = 1
    /\ summary[1].result.total_losses = 0

\* ----------------------------------------------------------------- C16
\* C16: the taxable amount of a summary (in tenths of a money unit) is never
\* negative, is 0 when net <= 0 and is half of net otherwise, the rate being
\* one-half; entries with the single gain 2463.00 (4926000 units of 0.0005)
\* give total_gains 2463.00, total_losses 0, net 2463.00, taxable 1231.50.
C16_TaxableHalfOfNet ==
    /\ summary # <<>> =>
         LET s == summary[1].result
         IN /\ s.taxable_capital_gain >= 0
            /\ s.net_capital_gain <= 0 => s.taxable_capital_gain = 0
            /\ s.net_capital_gain > 0 =>
                 2 * s.taxable_capital_gain = 10 * s.net_capital_gain
            /\ 2 * s.inclusion_rate = 10
    /\ LET e == [date |-> 96, tx_type |-> "sell", capital_gain |-> <<4926000>>,
                 superficial_loss_flag |-> FALSE]
           s == get_summary(<<e>>, 0, 0, None)
       IN /\ s.total_gains = 4926000
          /\ s.total_losses = 0
          /\ s.net_capital_gain = 4926000
          /\ s.taxable_capital_gain = 24630000

\* a summary with a positive net and, in the same ledger, a loss
C16_Witness ==
    /\ summary # <<>>
    /\ summary[1].result.net_capital_gain > 0
    /\ summary[1].result.total_losses > 0
    /\ summary[1].result.taxable_capital_gain > 0

\* ----------------------------------------------------------------- C17
\* C17 as stated: the pool a summary reports is the snapshot of the last
\* entry of its period, and zeros when the period has no entry.
C17_SnapshotOfPeriod ==
    summary # <<>> =>
      LET s == summary[1].result
          K == InPeriod(ledger, summary[1].tax_year)
          last == CHOOSE k \in K : \A j \in K : j <= k
      IN IF K = {}
         THEN /\ s.current_holdings_btc = 0
              /\ s.current_acb_total = 0
              /\ s.current_acb_per_btc = 0
         ELSE /\ s.current_holdings_btc = ledger[last].total_btc_after
              /\ s.current_acb_total = ledger[last].total_cost_after
              /\ s.current_acb_per_btc = ledger[last].acb_per_btc

\* C17: the pool a summary reports is the calculator's pool, that is the
\* snapshot of the last entry of the whole ledger whatever the period, and
\* zeros when the ledger is empty.
C17_SnapshotOfLedger ==
    summary # <<>> =>
      LET s == summary[1].result
      IN IF ledger = <<>>
         THEN /\ s.current_holdings_btc = 0
              /\ s.current_acb_total = 0
              /\ s.current_acb_per_btc = 0
         ELSE /\ s.current_holdings_btc = LastEntry(ledger).total_btc_after
              /\ s.current_acb_total = LastEntry(ledger).total_cost_after
              /\ s.current_acb_per_btc = LastEntry(ledger).acb_per_btc

\* a summary of 2023 over a ledger whose last entry is of 2024 and whose
\* pool changed after 2023
C17_Witness ==
    /\ summary # <<>>
    /\ summary[1].tax_year = <<2023>>
    /\ Len(ledger) >= 2
    /\ YearOf(ledger[1].date) = 2023
    /\ YearOf(LastEntry(ledger).date) = 2024
    /\ LastEntry(ledger).total_btc_after > 0
    /\ LastEntry(ledger).total_btc_after # ledger[1].total_btc_after

\* ----------------------------------------------------------------- C18
\* entry e is the entry of transaction tx
IsEntryOf(e, tx) ==
    /\ e.date = tx.date /\ e.tx_type = tx.tx_type
    /\ e.amount_btc = tx.amount_btc /\ e.price_cad = tx.price_cad
    /\ e.fee_cad = tx.fee_cad

\* the ledger starts with the two acquisitions of the fixture
FixtureAcquired ==
    /\ unit = "twentieth_btc"
    /\ Len(ledger) >= 2
    /\ IsEntryOf(ledger[1], create_test_transactions[1])
    /\ IsEntryOf(ledger[2], create_test_transactions[2])

\* C18 as stated: after 0.5 @ 60000 fee 50 and 0.25 @ 65000 fee 30 the pool
\* is total_cost 46280.00, total_units 0.75, per-unit cost 61706.67.
C18_FixturePoolAsStated ==
    FixtureAcquired =>
      /\ ledger[2].total_cost_after = 92560000
      /\ ledger[2].total_btc_after = 15
      /\ ledger[2].acb_per_btc = 6170667

\* C18: after 0.5 @ 60000 fee 50 and 0.25 @ 65000 fee 30 the pool is
\* total_cost 46330.00 (the fees 50 and 30 included), total_units 0.75,
\* per-unit cost 61773.33.
C18_FixturePool ==
    FixtureAcquired =>
      /\ ledger[2].total_cost_after = 92660000
      /\ ledger[2].total_btc_after = 15
      /\ ledger[2].acb_per_btc = 6177333
      /\ Len(ledger) = 2 => (total_cost = 92660000 /\ total_btc = 15)

C18_Witness ==
    /\ FixtureAcquired
    /\ Len(ledger) = 2
    /\ pc = "returned"

\* ----------------------------------------------------------------- C19
\* the two acquisitions of the fixture, then its disposal of 0.3 @ 70000
FixtureDisposed ==
    /\ FixtureAcquired
    /\ Len(ledger) >= 3
    /\ IsEntryOf(ledger[3], create_test_transactions[3])

\* C19 as stated: the disposal entry has proceeds 20975.00, cost_basis
\* 18512.00 when rounded to cents, gain 2463.00, no flag and an empty note.
C19_FixtureDisposalAsStated ==
    FixtureDisposed =>
      /\ ledger[3].proceeds = <<41950000>>
      /\ RoundHalfUp(ledger[3].cost_basis[1], 20) = 1851200
      /\ ledger[3].capital_gain = <<4926000>>
      /\ ledger[3].superficial_loss_flag = FALSE
      /\ ledger[3].superficial_loss_note = NoNote

\* C19: the disposal entry has proceeds 20975.00, cost_basis 18531.999
\* (0.3 * 61773.33), which is 18532.00 when rounded to cents, gain 2443.001,
\* no flag and an empty note.
C19_FixtureDisposal ==
    FixtureDisposed =>
      /\ ledger[3].proceeds = <<41950000>>
      /\ ledger[3].cost_basis = <<37063998>>
      /\ RoundHalfUp(ledger[3].cost_basis[1], 20) = 1853200
      /\ ledger[3].capital_gain = <<4886002>>
      /\ ledger[3].superficial_loss_flag = FALSE
      /\ ledger[3].superficial_loss_note = NoNote

C19_Witness ==
    /\ FixtureDisposed
    /\ Len(ledger) = 3
    /\ pc = "returned"

\* ----------------------------------------------------------------- C20
RECURSIVE SumQuantity(_, _)
SumQuantity(T, n) ==
    IF n = 0 THEN 0 ELSE SumQuantity(T, n - 1) + T[n].amount_btc

RECURSIVE SumCost(_, _)
SumCost(T, n) ==
    IF n = 0 THEN 0
    ELSE SumCost(T, n - 1) + (T[n].amount_btc * T[n].price_cad) + T[n].fee_cad

OnlyAcquisitions(T) == \A i \in 1..Len(T) : T[i].tx_type \in Acquisitions

\* C20: after a finished call whose argument holds only acquisitions,
\* total_btc is the sum of the quantities and total_cost the sum of
\* quantity * unit_price + fee, both taken over the argument in the order it
\* was given, whatever order the dates put them in.
C20_AcquisitionSumsExact ==
    (pc = "returned" /\ OnlyAcquisitions(arg)) =>
      /\ total_btc = SumQuantity(arg, Len(arg))
      /\ total_cost = SumCost(arg, Len(arg))

\* three acquisitions given out of date order, with a cost that the
\* quantity does not divide
C20_Witness ==
    /\ pc = "returned"
    /\ OnlyAcquisitions(arg)
    /\ Len(arg) = 3
    /\ arg[1].date > arg[2].date
    /\ arg[2].date < arg[3].date
    /\ total_cost % total_btc # 0

\* ----------------------------------------------------------------- C21
\* C21: every entry's per_unit_cost_after is total_cost_after /
\* total_units_after of that same entry rounded half-up to cents when
\* total_units_after > 0 and 0 otherwise, and so is the pool's; raising the
\* total cost of an entry's pool or of the current pool by one unit, the units
\* kept, never lowers the per-unit cost, and of two entries with the same
\* units the one with the larger cost never has the smaller per-unit cost.
C21_PerUnitCostRecomputed ==
    /\ \A k \in 1..Len(ledger) :
         /\ IsPerUnitCost(ledger[k].acb_per_btc, ledger[k].total_cost_after,
                          ledger[k].total_btc_after)
         /\ acb_per_btc(ledger[k].total_cost_after, ledger[k].total_btc_after)
              <= acb_per_btc(ledger[k].total_cost_after + 1,
                             ledger[k].total_btc_after)
    /\ IsPerUnitCost(acb_per_btc(total_cost, total_btc), total_cost, total_btc)
    /\ acb_per_btc(total_cost, total_btc)
         <= acb_per_btc(total_cost + 1, total_btc)
    /\ \A j, k \in 1..Len(ledger) :
         (/\ ledger[j].total_btc_after = ledger[k].total_btc_after
          /\ ledger[j].total_cost_after <= ledger[k].total_cost_after) =>
           ledger[j].acb_per_btc <= ledger[k].acb_per_btc

\* an entry whose quotient is a tie that is rounded up, and a later entry
\* with the same units and another cost
C21_Witness ==
    \E j, k \in 1..Len(ledger) :
      /\ j < k
      /\ ledger[j].total_btc_after > 0
      /\ 2 * ledger[j].total_cost_after
           = (2 * ledger[j].acb_per_btc - 1) * ledger[j].total_btc_after
      /\ ledger[k].total_btc_after = ledger[j].total_btc_after
      /\ ledger[k].total_cost_after # ledger[j].total_cost_after
      /\ ledger[k].acb_per_btc # ledger[j].acb_per_btc

\* ----------------------------------------------------------------- C22
\* C22: a step of the loop leaves every entry already in the ledger as it
\* is, and during and after a call the first n entries of the ledger are the
\* ledger of the first n recognized transactions of the sorted input alone.
C22_EntriesNeverModified ==
    /\ [](pc \in {"loop", "returned"} =>
            \A n \in 0..Len(ledger) :
              SubSeq(ledger, 1, n)
                = FreshRun(SubSeq(Recognized(sorted_txs), 1, n), n).ledger)
    /\ [][pc = "loop" =>
            /\ Len(ledger') >= Len(ledger)
            /\ SubSeq(ledger', 1, Len(ledger)) = ledger]_vars

\* a finished run of an acquisition, a disposal and another acquisition that
\* changed the per-unit cost
C22_Witness ==
    /\ pc = "returned"
    /\ Len(ledger) = 3
    /\ IsAcquisition(ledger[1])
    /\ IsDisposal(ledger[2])
    /\ IsAcquisition(ledger[3])
    /\ ledger[3].acb_per_btc # ledger[1].acb_per_btc
    /\ ledger[2].total_btc_after > 0

\* ----------------------------------------------------------------- C26
\* C26: a disposal entry with no acquisition entry before it in the ledger
\* dated inside the 30 days before it (its own day excluded) is not flagged,
\* whatever acquisitions the input holds on its day or later; a flagged
\* entry names an acquisition dated before it; and the flag of the n-th entry
\* is the flag the first n recognized transactions of the sorted input give.
C26_DetectorBackwardOnly ==
    /\ \A k \in 1..Len(ledger) :
         /\ (~\E j \in 1..(k - 1) :
                /\ IsAcquisition(ledger[j])
                /\ ledger[j].date < ledger[k].date
                /\ ledger[j].date >= ledger[k].date - WINDOW_DAYS)
              => ~ledger[k].superficial_loss_flag
         /\ ledger[k].superficial_loss_flag =>
              /\ ledger[k].superficial_loss_note.acquired_on # None
              /\ ledger[k].superficial_loss_note.acquired_on[1] < ledger[k].date
    /\ pc \in {"loop", "returned"} =>
         \A n \in 1..Len(ledger) :
           ledger[n].superficial_loss_flag
             = FreshRun(SubSeq(Recognized(sorted_txs), 1, n), n)
                 .ledger[n].superficial_loss_flag

\* a finished run with an unflagged loss that has an acquisition on its own
\* day before it and an acquisition within the 30 days after it
C26_Witness ==
    /\ pc = "returned"
    /\ \E k \in 2..Len(ledger) :
         /\ IsDisposal(ledger[k])
         /\ ledger[k].capital_gain[1] < 0
         /\ ~ledger[k].superficial_loss_flag
         /\ \E j \in 1..(k - 1) :
              IsAcquisition(ledger[j]) /\ ledger[j].date = ledger[k].date
         /\ \E j \in (k + 1)..Len(ledger) :
              /\ IsAcquisition(ledger[j])
              /\ ledger[j].date > ledger[k].date
              /\ ledger[j].date <= ledger[k].date + WINDOW_DAYS

\* ----------------------------------------------------------------- C27
\* C27: with every quantity > 0, whenever the pool holds 0 units it holds 0
\* cost, between any two steps of a run and in every entry's snapshot, where
\* the per-unit cost is 0 too.
C27_EmptyPoolCarriesNoCost ==
    /\ total_btc = 0 => total_cost = 0
    /\ \A k \in 1..Len(ledger) :
         ledger[k].total_btc_after = 0 =>
           (ledger[k].total_cost_after = 0 /\ ledger[k].acb_per_btc = 0)

\* the pool was emptied by a disposal whose subtraction left 0 units and a
\* cost that was not 0
C27_Witness ==
    /\ Len(ledger) >= 2
    /\ IsDisposal(LastEntry(ledger))
    /\ pre_clamp[2] = 0
    /\ pre_clamp[1] # 0
    /\ total_btc = 0
    /\ LastEntry(ledger).total_btc_after = 0

\* ----------------------------------------------------------------- C23
\* the disposal entries of ledger l dated in tax_year, in ledger order
DisposalsOf(l, tax_year) ==
    SelectSeq(l, LAMBDA e : IsDisposal(e) /\ YearOf(e.date) = tax_year)

\* C23: an export holds one row per disposal entry of its year, in ledger
\* order, and no other row; each row gives the entry's date, quantity,
\* gross proceeds = proceeds + fee = quantity * unit_price, cost basis, fee,
\* gain, the indicator of the entry's flag, and the entry's note.
C23_ExportReproducesEntries ==
    schedule_3 # <<>> =>
      LET rows == schedule_3[1].rows
          D == DisposalsOf(ledger, schedule_3[1].tax_year)
      IN /\ Len(rows) = Len(D)
         /\ \A k \in 1..Len(D) :
              /\ rows[k].date_of_disposition = D[k].date
              /\ rows[k].number_of_units = D[k].amount_btc
              /\ rows[k].proceeds_of_disposition
                   = D[k].proceeds[1] + D[k].fee_cad
              /\ rows[k].proceeds_of_disposition
                   = D[k].amount_btc * D[k].price_cad
              /\ rows[k].adjusted_cost_base = D[k].cost_basis[1]
              /\ rows[k].outlays_and_expenses = D[k].fee_cad
              /\ rows[k].gain_or_loss = D[k].capital_gain[1]
              /\ (rows[k].superficial_loss = "YES - REVIEW")
                   <=> D[k].superficial_loss_flag
              /\ rows[k].notes = D[k].superficial_loss_note

\* ----------------------------------------------------------------- C24
\* a call of get_summary that returned another dict than the call before
SummaryStep == summary' # <<>> /\ summary' # summary

\* C24: a get_summary call changes neither the ledger, the pool, the
\* detector's history nor the position of the calculator, and all the calls
\* made for one period since the last process_transactions returned the
\* same dict.
C24_SummaryIsPureRead ==
    /\ [](\A a, b \in summaries : a.tax_year = b.tax_year => a.result = b.result)
    /\ [][SummaryStep =>
            UNCHANGED <<ledger, total_cost, total_btc, recent_transactions,
                        transactions, arg, pc>>]_vars

\* summaries of all three periods were read from a ledger with entries in
\* both years, and they differ
C24_Witness ==
    /\ Cardinality(summaries) = 3
    /\ Cardinality({a.result : a \in summaries}) = 3
    /\ Len(ledger) >= 2
    /\ summary # <<>>
    /\ summary[1].tax_year = <<2023>>

\* ----------------------------------------------------------------- C25
\* day d has no price: none loaded within 7 days of it, none for its month
Unresolved(P, d) ==
    /\ \A x \in DOMAIN P : Abs(x - d) > NEAREST_DAYS
    /\ month_str(d) \notin DOMAIN fallback_monthly

\* C25: add_prices_to_transactions returns every transaction it was given,
\* in order and changed in nothing but the price; a transaction on a day
\* without a price gets unit_price 0 and a warning naming its day, the
\* warnings of such days being as many as such transactions; and the run of
\* the calculator that follows gives every such transaction its entry, with
\* the ledger a new calculator gives for the priced list.
C25_UnresolvedPriceDegrades ==
    stage = "priced" =>
      /\ Len(transactions) = Len(parsed)
      /\ \A i \in 1..Len(parsed) :
           /\ [transactions[i] EXCEPT !.price_cad = 0] = parsed[i]
           /\ Unresolved(prices, parsed[i].date) =>
                /\ transactions[i].price_cad = 0
                /\ \E w \in 1..Len(price_warnings) :
                     /\ price_warnings[w].date = parsed[i].date
                     /\ price_warnings[w].text = "No price data available"
      /\ Cardinality({w \in 1..Len(price_warnings) :
                        price_warnings[w].text = "No price data available"})
           = Cardinality({i \in 1..Len(parsed) :
                            Unresolved(prices, parsed[i].date)})
      /\ pc = "returned" =>
           /\ arg = transactions
           /\ Len(ledger) = Len(parsed)
           /\ ledger = FreshResult(transactions).ledger

\* a finished run of a list that held a transaction with a price and, after
\* it, two on a day without a price, an acquisition and a disposal
C25_Witness ==
    /\ stage = "priced"
    /\ pc = "returned"
    /\ Len(ledger) = 3
    /\ ~Unresolved(prices, parsed[1].date)
    /\ ledger[1].price_cad > 0
    /\ Unresolved(prices, ledger[2].date)
    /\ IsAcquisition(ledger[2])
    /\ IsDisposal(ledger[3])
    /\ ledger[3].price_cad = 0
    /\ Len(price_warnings) >= 2
    /\ prices # <<>>

\* ----------------------------------------------------------------- C30
\* the loaded days within 7 days of d, d itself left out
Nearby(P, d) == {x \in DOMAIN P : x # d /\ Abs(x - d) <= NEAREST_DAYS}

\* x is the first of the nearby days in the order of the search: nearer
\* before farther, and of two equally far the earlier
IsClosest(P, d, x) ==
    /\ x \in Nearby(P, d)
    /\ \A y \in Nearby(P, d) :
         \/ Abs(x - d) < Abs(y - d)
         \/ (Abs(x - d) = Abs(y - d) /\ x <= y)

LookupDays == {41, 438}

\* C30: for every day, get_price returns the price loaded for that day as
\* 'exact' if there is one; else the price of the closest loaded day within
\* 7 days, the earlier one of two equally close; else the fallback of the
\* day's month; else 0 as NO_PRICE_DATA.
C30_PricePriority ==
    \A d \in LookupDays :
      LET r == get_price(prices, d)
      IN /\ d \in DOMAIN prices =>
              (r.source = "exact" /\ r.price = prices[d])
         /\ (d \notin DOMAIN prices /\ Nearby(prices, d) # {}) =>
              /\ r.source = "nearest"
              /\ IsClosest(prices, d, d + r.delta)
              /\ r.price = prices[d + r.delta]
         /\ (d \notin DOMAIN prices /\ Nearby(prices, d) = {}
               /\ month_str(d) \in DOMAIN fallback_monthly) =>
              /\ r.source = "monthly_fallback"
              /\ r.price = fallback_monthly[month_str(d)]
         /\ (d \notin DOMAIN prices /\ Nearby(prices, d) = {}
               /\ month_str(d) \notin DOMAIN fallback_monthly) =>
              (r.source = "NO_PRICE_DATA" /\ r.price = 0)

\* priced transactions of day 41 while the days before and after it are
\* loaded and farther ones too, but not day 41 itself
C30_Witness ==
    /\ stage = "priced"
    /\ 41 \notin DOMAIN prices
    /\ {34, 40, 42} \subseteq DOMAIN prices
    /\ \E i \in 1..Len(transactions) :
         /\ transactions[i].date = 41
         /\ transactions[i].price_cad = prices[40]

\* ----------------------------------------------------------------- C28
\* init_session_state calls fetch_prices in this step
AutoFetchCall == app_pc = "auto_fetch" /\ app_pc' = "fetch_prices"

\* C28: in a session that started empty no script run reads a key that was
\* never set; its first run, once init_session_state is done, has called
\* fetch_prices exactly once; and init_session_state calls fetch_prices only
\* when neither price_fetch_attempted nor prices_loaded is true, at most
\* once in a run.
C28_StartupFetchOnce ==
    /\ [](fresh_session =>
            /\ app_pc # "AttributeError"
            /\ (runs = 1 /\ app_pc \in {"sidebar", "rendered"})
                 => fetch_calls = 1)
    /\ [][AutoFetchCall =>
            /\ ~truthy(session_state["price_fetch_attempted"])
            /\ ~truthy(session_state["prices_loaded"])
            /\ fetch_calls = 0]_vars

\* ----------------------------------------------------------------- C29
\* a call of the price provider is made in this step
ProviderCall == provider_calls' = provider_calls + 1

InFetch == app_pc \in {"fetch_prices", "fetch_loop"}

\* C29: a fetch_prices call makes at most 3 calls of the provider and none
\* once one has succeeded; from its first line on price_fetch_attempted is
\* true and stays so; it sets prices_loaded only to true and only in the
\* step of a successful call, so after three failures prices_loaded is what
\* it was; and no step of the script sets prices_loaded to false.
C29_BoundedRetry ==
    /\ [](/\ provider_calls <= max_retries
          /\ fetch_result \in {"running", "success", "failed"} =>
               truthy(session_state["price_fetch_attempted"])
          /\ fetch_result = "success" =>
               /\ truthy(session_state["prices_loaded"])
               /\ provider_calls \in 1..max_retries
          /\ fetch_result = "failed" => provider_calls = max_retries)
    /\ [][/\ ProviderCall => (fetch_result = "running" /\ attempt < max_retries)
          /\ (InFetch /\ session_state'["prices_loaded"]
                           # session_state["prices_loaded"]) =>
               /\ session_state'["prices_loaded"] = "True"
               /\ ProviderCall
               /\ fetch_result' = "success"
          /\ (InFetch /\ fetch_result' = "failed") =>
               session_state'["prices_loaded"] = session_state["prices_loaded"]
          /\ session_state'["prices_loaded"] = "False" =>
               session_state["prices_loaded"] = "False"
          /\ truthy(session_state["price_fetch_attempted"]) =>
               truthy(session_state'["price_fetch_attempted"])]_vars

\* a fetch_prices call that succeeded at its third call of the provider
C29_Witness ==
    /\ fetch_result = "success"
    /\ provider_calls = max_retries
    /\ attempt = max_retries - 1
    /\ truthy(session_state["prices_loaded"])
    /\ truthy(session_state["price_fetch_attempted"])

====
